---- MODULE Spec2Model ----
(***************************************************************************)
(* Model of the hackerchat RAG bot (src/rag-api/chat_api.py): the          *)
(* start-up sequence and exit paths of main, the socket event thread that  *)
(* invokes the `message` handler once per inbound event, the handler's     *)
(* external calls (retriever.invoke, llm.invoke, sio.emit), and the        *)
(* disconnect, channel_created and signal handlers; the index rebuild of   *)
(* create_or_load_vectorstore; and create_robot (create_robot.py).         *)
(*                                                                         *)
(*   Spec      start-up and message handling, all payload shapes           *)
(*   SpecClock the same against a clock                                    *)
(*   SpecEcho  the server echoes the bot's messages, announces channels    *)
(*   SpecLife  connection losses and shutdown signals                      *)
(*   SpecLive  external calls that never return, fair event thread         *)
(*   SpecIndex create_or_load_vectorstore against Pinecone's index states  *)
(*   SpecRobot sequential runs of create_robot.py on the users table       *)
(***************************************************************************)
EXTENDS Integers, Sequences, FiniteSets, TLC

\* ---------------------------------------------------------------- bounds
MaxEvents == 2      \* inbound message events delivered over the socket
MaxTime == 2        \* clock ticks observed
MaxDisconnects == 2 \* connection losses
MaxChannels == 1    \* channel_created events delivered
MaxPolls == 3       \* describe_index calls of one wait loop
MaxRuns == 3        \* invocations of create_robot

\* ------------------------------------------------------------- constants
bot_id == "bot_mr_robot"
MIN_INTERVAL == 1
None == "None"      \* Python's None / a key that is absent without default

Channels == {"c1", "c2"}
Texts == {"hi there", "sorry"}          \* texts the LLM may return
ExistingDMs == {<< >>, <<"c1">>}        \* rows of the DM-channel query

\* ------------------------------------------------- inbound event payloads
\* A JSON value is either a mapping ("dict") or something else ("str").
AuthorVals ==
    {[kind |-> "str", id |-> ""]} \cup
    [kind : {"dict"}, id : {"", "u1", bot_id}]

DictMsgs ==
    {m \in [kind : {"dict"}, channelId : Channels \cup {None},
            content : {"", " ", "hello"}, author : AuthorVals] :
        /\ (m.author.kind = "str" \/ m.author.id = "") =>
              (m.channelId = "c1" /\ m.content = "hello")
        /\ m.channelId # "c1" => m.content = "hello"
        /\ (m.author.id = bot_id /\ m.channelId = "c2") => FALSE
        /\ (m.author.id = bot_id /\ m.content = " ") => FALSE}

StrMsg == [kind |-> "str", channelId |-> None, content |-> "",
           author |-> [kind |-> "str", id |-> ""]]

\* data: the argument of the handler.  hasMessage tells whether the mapping
\* carries the message under the key 'message' or is the message itself.
Payloads ==
    {[kind |-> "str", hasMessage |-> FALSE, message |-> StrMsg]} \cup
    {[kind |-> "dict", hasMessage |-> TRUE, message |-> StrMsg]} \cup
    {[kind |-> "dict", hasMessage |-> TRUE, message |-> m] : m \in DictMsgs} \cup
    {[kind |-> "dict", hasMessage |-> FALSE, message |-> m] :
        m \in {x \in DictMsgs : x.channelId = "c1" /\ x.content = "hello"
                                  /\ x.author.id = "u1"}}

VARIABLES
    mainpc,          \* position of main()
    vectorstore,     \* global vectorstore: FALSE is None
    is_initialized,  \* global is_initialized
    connected,       \* sio.connected
    events,          \* payloads delivered by the socket, in arrival order
    dispatched,      \* how many of them the event thread has taken
    pc,              \* position of the event thread inside message()
    cur,             \* locals of the running message() call
    trace,           \* per event: external calls made and their results
    outcome,         \* per event: how its handler call ended
    outbox,          \* everything passed to sio.emit that went out, in order
    now,             \* clock
    discPending,     \* a disconnect event waits for the disconnect() handler
    disconnects,     \* disconnect events raised so far
    attempts,        \* sio.connect calls made by the disconnect() handler
    lastAttempt,     \* result of the latest of them
    signalled,       \* signal_handler has been entered
    calledDisconnect,\* main or signal_handler has called sio.disconnect()
    created,         \* channel_created events handled so far
    chanlog,         \* per channel_created event: payload, emits, exception
    remote,          \* state of the index PINECONE_INDEX at Pinecone
    ipc,             \* position of create_or_load_vectorstore
    ilog,            \* Pinecone calls made by it, with their results
    users,           \* rows of the "users" table
    runs             \* invocations of create_robot, with their results

\* connection and process life cycle
lifeVars == <<discPending, disconnects, attempts, lastAttempt, signalled,
              calledDisconnect, created, chanlog>>

vars == <<mainpc, vectorstore, is_initialized, connected, events, dispatched,
          pc, cur, trace, outcome, outbox, now, lifeVars>>

\* the index-building function and the bot-creation script
indexVars == <<remote, ipc, ilog>>
robotVars == <<users, runs>>
toolVars == <<indexVars, robotVars>>

allVars == <<vars, toolVars>>

\* the process has not exited
Alive == mainpc \notin {"exit0", "exit1"}

NoCur == [ev |-> 0, channel_id |-> None, content |-> "", text |-> ""]

\* ------------------------------------------------------ handler fragments
\* dict.get(key, default) on the author mapping; raises on a non-mapping
HasAttrGet(v) == v.kind = "dict"

\* message = data.get('message', data)
GetMessage(data) ==
    IF data.hasMessage THEN data.message
    ELSE [data.message EXCEPT !.kind = data.kind]

\* the condition with the self-check left out
ShouldRespondNoSelfCheck(author_id, vs) ==
    author_id # "" /\ author_id # None /\ vs

\* if author_id and author_id != bot_id and vectorstore
ShouldRespond(author_id, vs) ==
    author_id # "" /\ author_id # None /\ author_id # bot_id /\ vs

\* except Exception as e (both the inner and the outer handler)
ExceptionClasses == {"AttributeError", "Exception"}
InnerCatches(exc) == exc \in ExceptionClasses

\* an outer handler that names one exception class only
OuterCatchesKeyError(exc) == exc = "KeyError"

OuterCatches(exc) == exc \in ExceptionClasses

\* a handler that goes on to the LLM with no context after a failed retrieval
AfterInnerExceptNoContext(stage) ==
    IF stage = "retrieve" THEN "generate" ELSE "idle"

\* a handler that calls the LLM again after a failed call
AfterInnerExceptRegenerate(stage) ==
    IF stage = "generate" THEN "generate" ELSE "idle"

\* a handler that emits again after a failed emit
AfterInnerExceptResend(stage) ==
    IF stage = "send" THEN "send" ELSE "idle"

\* where the event thread stands after the inner except block has run
AfterInnerExcept(stage) == "idle"

\* a reply that carries a canned text instead of the LLM's
MessageEventCanned(channel_id, text, ev, t) ==
    [event |-> "message", channelId |-> channel_id, content |-> "sorry",
     author |-> bot_id, ev |-> ev, at |-> t]

\* a message that carries the bot's display name where its id belongs
MessageEventNamed(channel_id, text, ev, t) ==
    [event |-> "message", channelId |-> channel_id, content |-> text,
     author |-> "Mr. Robot", ev |-> ev, at |-> t]

\* the message_event built for a reply
MessageEvent(channel_id, text, ev, t) ==
    [event |-> "message", channelId |-> channel_id, content |-> text,
     author |-> bot_id, ev |-> ev, at |-> t]

JoinEvent(channel_id, t) ==
    [event |-> "join-channel", channelId |-> channel_id, content |-> "",
     author |-> "", ev |-> 0, at |-> t]

\* a transport that sends the newest packet first
EmitFirst(out, m) == <<m>> \o out

\* sio.emit: packets leave in the order they were emitted
Emit(out, m) == Append(out, m)

BotInit ==
    /\ mainpc = "init"
    /\ vectorstore = FALSE
    /\ is_initialized = FALSE
    /\ connected = FALSE
    /\ events = << >>
    /\ dispatched = 0
    /\ pc = "idle"
    /\ cur = NoCur
    /\ trace = << >>
    /\ outcome = << >>
    /\ outbox = << >>
    /\ now = 0
    /\ discPending = FALSE
    /\ disconnects = 0
    /\ attempts = 0
    /\ lastAttempt = "none"
    /\ signalled = FALSE
    /\ calledDisconnect = FALSE
    /\ created = 0
    /\ chanlog = << >>

IndexIdle ==
    /\ remote = "absent"
    /\ ipc = "start"
    /\ ilog = << >>

RobotIdle ==
    /\ users = << >>
    /\ runs = << >>

Init ==
    /\ BotInit
    /\ IndexIdle
    /\ RobotIdle

\* ------------------------------------------------------------------ main
\* an assignment that misses the `global` declaration: the module-level
\* vectorstore stays None
MainVectorstoreLocal ==
    /\ mainpc = "init"
    /\ \E ok \in BOOLEAN :
         mainpc' = IF ok THEN "connect" ELSE "failed"
    /\ UNCHANGED vectorstore
    /\ UNCHANGED lifeVars
    /\ UNCHANGED <<is_initialized, connected, events, dispatched, pc, cur,
                   trace, outcome, outbox, now>>
    /\ UNCHANGED toolVars

\* fetch_messages_from_db .. create_or_load_vectorstore; an exception of
\* any of them is caught by main's except block
MainVectorstore ==
    /\ mainpc = "init"
    /\ \E ok \in BOOLEAN :
         IF ok THEN /\ vectorstore' = TRUE
                    /\ mainpc' = "connect"
               ELSE /\ mainpc' = "failed"
                    /\ UNCHANGED vectorstore
    /\ UNCHANGED lifeVars
    /\ UNCHANGED <<is_initialized, connected, events, dispatched, pc, cur,
                   trace, outcome, outbox, now>>
    /\ UNCHANGED toolVars

\* sio.connect(...); it may raise with the transport up or down
MainConnect ==
    /\ mainpc = "connect"
    /\ \E ok \in BOOLEAN :
         IF ok THEN /\ connected' = TRUE
                    /\ mainpc' = "join"
               ELSE /\ mainpc' = "failed"
                    /\ connected' \in BOOLEAN
    /\ UNCHANGED lifeVars
    /\ UNCHANGED <<vectorstore, is_initialized, events, dispatched, pc, cur,
                   trace, outcome, outbox, now>>
    /\ UNCHANGED toolVars

\* sio.disconnect(): the connection goes down and a disconnect event is
\* raised for the disconnect() handler
SioDisconnect ==
    /\ connected' = FALSE
    /\ discPending' = TRUE
    /\ disconnects' = disconnects + 1
    /\ calledDisconnect' = TRUE

\* an except block that exits without looking at the socket
MainExceptNoDisconnect ==
    /\ mainpc = "failed"
    /\ mainpc' = "exiting1"
    /\ UNCHANGED lifeVars
    /\ UNCHANGED <<vectorstore, is_initialized, connected, events, dispatched,
                   pc, cur, trace, outcome, outbox, now>>
    /\ UNCHANGED toolVars

\* main's except block: if sio.connected: sio.disconnect()
MainExcept ==
    /\ mainpc = "failed"
    /\ mainpc' = "exiting1"
    /\ IF connected THEN SioDisconnect
       ELSE UNCHANGED <<connected, discPending, disconnects, calledDisconnect>>
    /\ UNCHANGED <<attempts, lastAttempt, signalled, created, chanlog>>
    /\ UNCHANGED <<vectorstore, is_initialized, events, dispatched, pc, cur,
                   trace, outcome, outbox, now>>
    /\ UNCHANGED toolVars

\* sys.exit(1) of the except block, sys.exit(0) of signal_handler
MainExit ==
    /\ mainpc \in {"exiting0", "exiting1"}
    /\ mainpc' = IF mainpc = "exiting0" THEN "exit0" ELSE "exit1"
    /\ UNCHANGED lifeVars
    /\ UNCHANGED <<vectorstore, is_initialized, connected, events, dispatched,
                   pc, cur, trace, outcome, outbox, now>>
    /\ UNCHANGED toolVars

\* SIGINT or SIGTERM once the handlers are registered: signal_handler
Signal ==
    /\ mainpc = "running"
    /\ signalled' = TRUE
    /\ mainpc' = "exiting0"
    /\ IF connected THEN SioDisconnect
       ELSE UNCHANGED <<connected, discPending, disconnects, calledDisconnect>>
    /\ UNCHANGED <<attempts, lastAttempt, created, chanlog>>
    /\ UNCHANGED <<vectorstore, is_initialized, events, dispatched, pc, cur,
                   trace, outcome, outbox, now>>
    /\ UNCHANGED toolVars

\* ------------------------------------------------------------ connection
\* the server or the network drops the connection
ConnectionLost ==
    /\ Alive
    /\ connected
    /\ disconnects < MaxDisconnects
    /\ connected' = FALSE
    /\ discPending' = TRUE
    /\ disconnects' = disconnects + 1
    /\ UNCHANGED <<attempts, lastAttempt, signalled, calledDisconnect, created, chanlog>>
    /\ UNCHANGED <<mainpc, vectorstore, is_initialized, events, dispatched, pc,
                   cur, trace, outcome, outbox, now>>
    /\ UNCHANGED toolVars

\* a handler that keeps trying until the connection is back
ReconnectAgainUntilUp(ok) == ~ok

\* whether disconnect() makes another attempt after this one: it has no loop
ReconnectAgain(ok) == FALSE

\* disconnect(): one sio.connect inside try/except
DisconnectHandler ==
    /\ Alive
    /\ discPending
    /\ \E ok \in BOOLEAN :
         /\ connected' = ok
         /\ lastAttempt' = IF ok THEN "ok" ELSE "fail"
         /\ discPending' = ReconnectAgain(ok)
    /\ attempts' = attempts + 1
    /\ UNCHANGED <<disconnects, signalled, calledDisconnect, created, chanlog>>
    /\ UNCHANGED <<mainpc, vectorstore, is_initialized, events, dispatched, pc,
                   cur, trace, outcome, outbox, now>>
    /\ UNCHANGED toolVars

RECURSIVE JoinEmits(_, _)
JoinEmits(chans, t) ==
    IF chans = << >> THEN << >>
    ELSE <<JoinEvent(Head(chans), t),
           MessageEvent(Head(chans), "Mr. Robot has reconnected to the channel.", 0, t)>>
         \o JoinEmits(Tail(chans), t)

\* a main that returns after initialization instead of waiting for a signal
MainJoinNoPause ==
    /\ mainpc = "join"
    /\ \E chans \in ExistingDMs :
         \E k \in 0..(2 * Len(chans)) :
            outbox' = outbox \o SubSeq(JoinEmits(chans, now), 1, k)
    /\ is_initialized' = TRUE
    /\ mainpc' = "exiting0"
    /\ UNCHANGED lifeVars
    /\ UNCHANGED <<vectorstore, connected, events, dispatched, pc, cur,
                   trace, outcome, now>>
    /\ UNCHANGED toolVars

\* join_existing_dm_channels(); is_initialized = True; the signal handlers
\* are registered and main waits in signal.pause()
MainJoin ==
    /\ mainpc = "join"
    /\ \E chans \in ExistingDMs :
         \E k \in 0..(2 * Len(chans)) :       \* emits done before a failure
            outbox' = outbox \o SubSeq(JoinEmits(chans, now), 1, k)
    /\ is_initialized' = TRUE
    /\ mainpc' = "running"
    /\ UNCHANGED lifeVars
    /\ UNCHANGED <<vectorstore, connected, events, dispatched, pc, cur,
                   trace, outcome, now>>
    /\ UNCHANGED toolVars

\* ------------------------------------------------------ the socket thread
\* the server delivers a 'message' event
ArriveFrom(S) ==
    /\ Alive
    /\ connected
    /\ Len(events) < MaxEvents
    /\ \E data \in S : events' = Append(events, data)
    /\ trace' = Append(trace, << >>)
    /\ outcome' = Append(outcome, "queued")
    /\ UNCHANGED lifeVars
    /\ UNCHANGED <<mainpc, vectorstore, is_initialized, connected, dispatched,
                   pc, cur, outbox, now>>
    /\ UNCHANGED toolVars

Arrive == ArriveFrom(Payloads)

\* a smaller choice of payloads: malformed, own, accepted, no conversation
CorePayloads ==
    {d \in Payloads :
        \/ d.kind = "str"
        \/ /\ d.hasMessage
           /\ d.message.kind = "dict"
           /\ d.message.content = "hello"
           /\ d.message.author.kind = "dict"
           /\ d.message.author.id \in {"u1", bot_id}
           /\ d.message.channelId = "c1"}

ArriveCore == ArriveFrom(CorePayloads)

Finish(ev, how) ==
    /\ outcome' = [outcome EXCEPT ![ev] = how]
    /\ pc' = IF how = "escaped" THEN "crashed" ELSE "idle"
    /\ cur' = NoCur

\* an exception raised outside the inner try: the outer except block
RaiseOuter(ev, exc) ==
    Finish(ev, IF OuterCatches(exc) THEN "error" ELSE "escaped")

\* an exception raised inside the inner try
RaiseInner(ev, exc, stage) ==
    IF InnerCatches(exc)
    THEN IF AfterInnerExcept(stage) = "idle"
         THEN Finish(ev, "failed")
         ELSE /\ pc' = AfterInnerExcept(stage)
              /\ UNCHANGED <<cur, outcome>>
    ELSE RaiseOuter(ev, exc)

\* an event thread that starts a handler while another one is running
CanDispatchAlways(p) == p # "crashed"

\* the socket client calls the handlers one after the other from its one
\* event thread: the next call starts when the previous one has returned
CanDispatch(p) == p = "idle"

\* message(data), up to the decision whether to respond
MessageBegin ==
    /\ Alive
    /\ CanDispatch(pc)
    /\ dispatched < Len(events)
    /\ dispatched' = dispatched + 1
    /\ LET ev == dispatched + 1
           data == events[ev]
       IN IF ~HasAttrGet(data) THEN RaiseOuter(ev, "AttributeError")
          ELSE LET message == GetMessage(data) IN
               IF message.kind # "dict" THEN Finish(ev, "invalid")
               ELSE IF ~HasAttrGet(message.author)
                    THEN RaiseOuter(ev, "AttributeError")
               ELSE IF ShouldRespond(message.author.id, vectorstore)
                    THEN /\ pc' = "retrieve"
                         /\ cur' = [ev |-> ev, channel_id |-> message.channelId,
                                    content |-> message.content, text |-> ""]
                         /\ outcome' = [outcome EXCEPT ![ev] = "running"]
                    ELSE Finish(ev, "ignored")
    /\ UNCHANGED lifeVars
    /\ UNCHANGED <<mainpc, vectorstore, is_initialized, connected, events,
                   trace, outbox, now>>
    /\ UNCHANGED toolVars

Call(op, res) == [op |-> op, res |-> res]

\* docs = retriever.invoke(content)
Retrieve ==
    /\ Alive
    /\ pc = "retrieve"
    /\ \E ok \in BOOLEAN :
         /\ trace' = [trace EXCEPT ![cur.ev] =
                         Append(@, Call("retrieve", IF ok THEN "ok" ELSE "raise"))]
         /\ IF ok THEN /\ pc' = "generate"
                       /\ UNCHANGED <<cur, outcome>>
                  ELSE RaiseInner(cur.ev, "Exception", "retrieve")
    /\ UNCHANGED lifeVars
    /\ UNCHANGED <<mainpc, vectorstore, is_initialized, connected, events,
                   dispatched, outbox, now>>
    /\ UNCHANGED toolVars

\* llm_response = llm.invoke(prompt_with_context)
Generate ==
    /\ Alive
    /\ pc = "generate"
    /\ \E res \in Texts \cup {"raise"} :
         /\ trace' = [trace EXCEPT ![cur.ev] = Append(@, Call("generate", res))]
         /\ IF res # "raise"
            THEN /\ pc' = "send"
                 /\ cur' = [cur EXCEPT !.text = res]
                 /\ UNCHANGED outcome
            ELSE RaiseInner(cur.ev, "Exception", "generate")
    /\ UNCHANGED lifeVars
    /\ UNCHANGED <<mainpc, vectorstore, is_initialized, connected, events,
                   dispatched, outbox, now>>
    /\ UNCHANGED toolVars

\* sio.emit('message', message_event)
Send ==
    /\ Alive
    /\ pc = "send"
    /\ \E ok \in {b \in BOOLEAN : b => connected} :
         /\ trace' = [trace EXCEPT ![cur.ev] =
                         Append(@, Call("send", IF ok THEN "ok" ELSE "raise"))]
         /\ IF ok
            THEN /\ outbox' = Emit(outbox,
                        MessageEvent(cur.channel_id, cur.text, cur.ev, now))
                 /\ Finish(cur.ev, "replied")
            ELSE /\ RaiseInner(cur.ev, "Exception", "send")
                 /\ UNCHANGED outbox
    /\ UNCHANGED lifeVars
    /\ UNCHANGED <<mainpc, vectorstore, is_initialized, connected, events,
                   dispatched, now>>
    /\ UNCHANGED toolVars

\* ------------------------------------------------------- channel_created
\* participants: each entry is the id of a participant mapping, or "bad"
\* for an entry that is not a mapping
ParticipantLists ==
    {<< >>, <<"u1">>, <<"u1", bot_id>>, <<"bad", bot_id>>, <<bot_id, "bad">>}

ChannelPayloads ==
    {[kind |-> "str", type |-> None, id |-> None, participants |-> << >>]} \cup
    [kind : {"dict"}, type : {"DM", "PUBLIC"}, id : {"c1"},
     participants : ParticipantLists]

\* any(p.get('id') == bot_id for p in participants): "raise" when an entry
\* that is not a mapping is reached before a match
RECURSIVE AnyIsBot(_)
AnyIsBot(ps) ==
    IF ps = << >> THEN "false"
    ELSE IF Head(ps) = "bad" THEN "raise"
    ELSE IF Head(ps) = bot_id THEN "true"
    ELSE AnyIsBot(Tail(ps))

WelcomeText == "Hello! I'm Mr. Robot, your AI assistant. How can I help you today?"

\* a handler that welcomes the bot to channels of every type
ChannelEmitsAnyType(data, t) ==
    IF data.kind # "dict" THEN << >>
    ELSE IF AnyIsBot(data.participants) # "true" THEN << >>
    ELSE <<JoinEvent(data.id, t), MessageEvent(data.id, WelcomeText, 0, t)>>

\* what channel_created(data) passes to sio.emit, in order
ChannelEmits(data, t) ==
    IF data.kind # "dict" THEN << >>                    \* AttributeError, caught
    ELSE IF data.type # "DM" THEN << >>
    ELSE IF AnyIsBot(data.participants) # "true" THEN << >>
    ELSE <<JoinEvent(data.id, t), MessageEvent(data.id, WelcomeText, 0, t)>>

\* the exception channel_created(data) raises before it emits anything:
\* data.get on a payload that is not a mapping, p.get on such a participant
ChannelRaises(data) ==
    IF data.kind # "dict" THEN "AttributeError"
    ELSE IF data.type = "DM" /\ AnyIsBot(data.participants) = "raise"
         THEN "AttributeError"
    ELSE None

\* except Exception as e, the handler's only except block
ChannelCatches(exc) == exc \in ExceptionClasses

\* channel_created(data): runs on the event thread after the events
\* delivered before it; an emit that raises ends the handler
ChannelCreated ==
    /\ Alive
    /\ connected
    /\ CanDispatch(pc)
    /\ dispatched = Len(events)
    /\ created < MaxChannels
    /\ created' = created + 1
    /\ \E data \in ChannelPayloads :
         \E k \in 0..Len(ChannelEmits(data, now)) :
            LET sent == SubSeq(ChannelEmits(data, now), 1, k)
                exc == IF k < Len(ChannelEmits(data, now)) THEN "Exception"
                       ELSE ChannelRaises(data)
                escaped == exc # None /\ ~ChannelCatches(exc)
            IN /\ outbox' = outbox \o sent
               /\ chanlog' = Append(chanlog,
                     [data |-> data, emitted |-> sent, raised |-> exc,
                      escaped |-> escaped])
               /\ pc' = IF escaped THEN "crashed" ELSE pc
    /\ UNCHANGED <<discPending, disconnects, attempts, lastAttempt, signalled,
                   calledDisconnect>>
    /\ UNCHANGED <<mainpc, vectorstore, is_initialized, connected, events,
                   dispatched, cur, trace, outcome, now>>
    /\ UNCHANGED toolVars

\* ------------------------------------------------------------------ echo
\* the inbound event by which the server shows a message to the members of
\* its channel, the bot included
EchoOf(m) ==
    [kind |-> "dict", hasMessage |-> TRUE,
     message |-> [kind |-> "dict", channelId |-> m.channelId,
                  content |-> m.content,
                  author |-> [kind |-> "dict", id |-> m.author]]]

\* a message the bot has emitted comes back to it
Echo ==
    /\ Alive
    /\ connected
    /\ Len(events) < MaxEvents
    /\ \E k \in 1..Len(outbox) :
         /\ outbox[k].event = "message"
         /\ events' = Append(events, EchoOf(outbox[k]))
    /\ trace' = Append(trace, << >>)
    /\ outcome' = Append(outcome, "queued")
    /\ UNCHANGED lifeVars
    /\ UNCHANGED <<mainpc, vectorstore, is_initialized, connected, dispatched,
                   pc, cur, outbox, now>>
    /\ UNCHANGED toolVars

\* an external call that never returns; nothing bounds the wait
Hang ==
    /\ Alive
    /\ pc \in {"retrieve", "generate", "send"}
    /\ trace' = [trace EXCEPT ![cur.ev] = Append(@, Call(pc, "hang"))]
    /\ pc' = "hung"
    /\ UNCHANGED lifeVars
    /\ UNCHANGED <<mainpc, vectorstore, is_initialized, connected, events,
                   dispatched, cur, outcome, outbox, now>>
    /\ UNCHANGED toolVars

Tick ==
    /\ now < MaxTime
    /\ now' = now + 1
    /\ UNCHANGED lifeVars
    /\ UNCHANGED <<mainpc, vectorstore, is_initialized, connected, events,
                   dispatched, pc, cur, trace, outcome, outbox>>
    /\ UNCHANGED toolVars

\* --------------------------------------------- create_or_load_vectorstore
\* what str(e) may read when describe_index raises
NotFoundMessages == {"(404) Reason: Not Found", "index idx not found"}
DescribeErrors == NotFoundMessages \cup {"Connection timed out"}

\* str.lower() on these messages
MessageLower(msg) ==
    CASE msg = "(404) Reason: Not Found" -> "(404) reason: not found"
      [] msg = "Connection timed out" -> "connection timed out"
      [] OTHER -> msg

\* "not found" in text: the texts that hold these very characters
HasNotFound(text) ==
    text \in {"(404) reason: not found", "index idx not found"}

\* a wait loop that takes any error of describe_index for the end of deletion
BreaksWaitOnAnyError(msg) == TRUE

\* if "not found" in str(e).lower(): break -- else: raise e
BreaksWait(msg) == HasNotFound(MessageLower(msg))

\* Pinecone's side: the index is there and serving, is being deleted, is
\* gone, or is the one create_index has made
RemoteStates == {"absent", "ready", "terminating", "new"}

\* list_indexes().names() holds the name as long as the index is not gone
Listed(r) == r # "absent"

\* the errors describe_index can raise: a missing index is reported as such
\* only when it is missing
DescribeErrorsWhen(r) ==
    IF r = "absent" THEN DescribeErrors ELSE DescribeErrors \ NotFoundMessages

ICall(op, res) == [op |-> op, res |-> res, remote |-> remote]

Polls == Cardinality({k \in 1..Len(ilog) : ilog[k].op = "describe_index"})

InitIndex ==
    /\ BotInit
    /\ RobotIdle
    /\ remote \in {"absent", "ready", "terminating"}
    /\ ipc = "start"
    /\ ilog = << >>

\* if PINECONE_INDEX in pc.list_indexes().names()
ListIndexes ==
    /\ ipc = "start"
    /\ \E res \in {IF Listed(remote) THEN "listed" ELSE "unlisted",
                   "Connection timed out"} :
         /\ ilog' = Append(ilog, ICall("list_indexes", res))
         /\ ipc' = CASE res = "listed" -> "delete"
                     [] res = "unlisted" -> "create"
                     [] OTHER -> "raised"
    /\ UNCHANGED remote
    /\ UNCHANGED <<vars, robotVars>>

\* pc.delete_index(PINECONE_INDEX): deletion starts, or the call raises
DeleteIndex ==
    /\ ipc = "delete"
    /\ \E ok \in BOOLEAN :
         /\ ilog' = Append(ilog, ICall("delete_index",
                              IF ok THEN "ok" ELSE "Connection timed out"))
         /\ remote' = IF ok THEN "terminating" ELSE remote
         /\ ipc' = IF ok THEN "wait" ELSE "raised"
    /\ UNCHANGED <<vars, robotVars>>

\* Pinecone finishes a deletion
IndexGone ==
    /\ remote = "terminating"
    /\ ipc \notin {"returned", "raised"}
    /\ remote' = "absent"
    /\ UNCHANGED <<ipc, ilog>>
    /\ UNCHANGED <<vars, robotVars>>

\* one round of the wait loop: describe_index returns and the loop sleeps,
\* or it raises and the except block breaks or re-raises
DescribeIndex ==
    /\ ipc = "wait"
    /\ Polls < MaxPolls
    /\ \/ /\ remote # "absent"
          /\ ilog' = Append(ilog, ICall("describe_index", "exists"))
          /\ UNCHANGED ipc
       \/ \E msg \in DescribeErrorsWhen(remote) :
            /\ ilog' = Append(ilog, ICall("describe_index", msg))
            /\ ipc' = IF BreaksWait(msg) THEN "create" ELSE "raised"
    /\ UNCHANGED remote
    /\ UNCHANGED <<vars, robotVars>>

\* pc.create_index(name=PINECONE_INDEX, ...): refused while the name is taken
CreateIndex ==
    /\ ipc = "create"
    /\ \E ok \in BOOLEAN :
         LET made == ok /\ remote = "absent" IN
         /\ ilog' = Append(ilog, ICall("create_index",
                       IF made THEN "ok"
                       ELSE IF remote = "absent" THEN "Connection timed out"
                       ELSE "(409) Reason: Conflict"))
         /\ remote' = IF made THEN "new" ELSE remote
         /\ ipc' = IF made THEN "load" ELSE "raised"
    /\ UNCHANGED <<vars, robotVars>>

\* PineconeVectorStore.from_documents(...) and the return
FromDocuments ==
    /\ ipc = "load"
    /\ \E ok \in BOOLEAN :
         /\ ilog' = Append(ilog, ICall("from_documents",
                              IF ok THEN "ok" ELSE "Connection timed out"))
         /\ ipc' = IF ok THEN "returned" ELSE "raised"
    /\ UNCHANGED remote
    /\ UNCHANGED <<vars, robotVars>>

NextIndex ==
    \/ ListIndexes
    \/ DeleteIndex
    \/ IndexGone
    \/ DescribeIndex
    \/ CreateIndex
    \/ FromDocuments

SpecIndex == InitIndex /\ [][NextIndex]_allVars

\* ------------------------------------------------------------ create_robot
\* bot names given on the command line, as sequences of characters
BotNames == {<<"R", " ", "b">>, <<"r", " ", "b">>, <<"r", "_", "b">>,
             <<"R", "b">>}

\* str.lower(), character by character
LowerChar(c) == CASE c = "R" -> "r" [] OTHER -> c
StrLower(str) == [i \in 1..Len(str) |-> LowerChar(str[i])]

\* str.replace(old, new) for one-character old and new
StrReplace(str, old, new) ==
    [i \in 1..Len(str) |-> IF str[i] = old THEN new ELSE str[i]]

\* bot_id = f"bot_{bot_name.lower().replace(' ', '_')}"
BotIdOf(bot_name) ==
    <<"b", "o", "t", "_">> \o StrReplace(StrLower(bot_name), " ", "_")

\* the row of the INSERT statement (the two timestamps left out)
UserRow(id, name) == [id |-> id, name |-> name, status |-> "online"]

\* a script that inserts without looking
FetchoneNothing(rows, id) == FALSE

\* SELECT id FROM "users" WHERE id = %s; cur.fetchone()
Fetchone(rows, id) == \E i \in 1..Len(rows) : rows[i].id = id

\* the table before the first invocation: empty, a human user, the bot
InitialTables ==
    {<< >>,
     <<[id |-> <<"u", "1">>, name |-> <<"A", "n", "n">>, status |-> "offline"]>>,
     <<UserRow(<<"b", "o", "t", "_", "r", "_", "b">>, <<"R", " ", "b">>)>>}

\* where a database call of one invocation fails, if any does
FailurePoints == {"none", "connect", "select", "insert"}

InitRobot ==
    /\ BotInit
    /\ IndexIdle
    /\ users \in InitialTables
    /\ runs = << >>

\* one invocation of create_robot(bot_name), from connect to close; the
\* INSERT and its commit take effect together or are rolled back
CreateRobot ==
    /\ Len(runs) < MaxRuns
    /\ \E bot_name \in BotNames, fail \in FailurePoints :
         LET id == BotIdOf(bot_name)
             res == IF fail = "connect" THEN "raised"
                    ELSE IF fail = "select" THEN "exit1"
                    ELSE IF Fetchone(users, id) THEN "exists"
                    ELSE IF fail = "insert" THEN "exit1"
                    ELSE "created"
             after == IF res = "created" THEN Append(users, UserRow(id, bot_name))
                      ELSE users
         IN /\ users' = after
            /\ runs' = Append(runs, [name |-> bot_name, res |-> res,
                                     before |-> users, after |-> after])
    /\ UNCHANGED <<vars, indexVars>>

NextRobot == CreateRobot

SpecRobot == InitRobot /\ [][NextRobot]_allVars

\* main, the message handler and the disconnect handler
Program ==
    \/ MainVectorstore
    \/ MainConnect
    \/ MainJoin
    \/ MainExcept
    \/ MainExit
    \/ MessageBegin
    \/ Retrieve
    \/ Generate
    \/ Send
    \/ DisconnectHandler

Next ==
    \/ Program
    \/ Arrive

Spec == Init /\ [][Next]_allVars

\* the same program observed against a clock
NextClock ==
    \/ Next
    \/ Tick

SpecClock == Init /\ [][NextClock]_allVars

\* the whole life of the process: connection losses and shutdown signals
NextLife ==
    \/ Program
    \/ ArriveCore
    \/ ConnectionLost
    \/ Signal

SpecLife == Init /\ [][NextLife]_allVars

\* the server echoes the bot's messages and announces new channels
NextEcho ==
    \/ Program
    \/ ArriveCore
    \/ ChannelCreated
    \/ Echo

SpecEcho == Init /\ [][NextEcho]_allVars

\* external calls may hang; the event thread is always scheduled, and a
\* call that does return is followed by the next statement
NextLive ==
    \/ Program
    \/ ArriveCore
    \/ Hang

SpecLive ==
    /\ Init
    /\ [][NextLive]_allVars
    /\ WF_allVars(MessageBegin)
    /\ WF_allVars(Retrieve)
    /\ WF_allVars(Generate)
    /\ WF_allVars(Send)

\* ------------------------------------------------------------ observers
EventIds == 1..Len(events)

\* positions of the outbox holding what the handler of event i emitted
Replies(i) == {k \in 1..Len(outbox) : outbox[k].ev = i}

\* the calls of one kind made for event i
CallsOf(i, op) == {k \in 1..Len(trace[i]) : trace[i][k].op = op}

\* the handler call for event i has returned
Handled(i) == outcome[i] \notin {"queued", "running"}

\* the author id an event carries (None when it carries none)
AuthorIdOf(data) ==
    IF data.kind = "dict" /\ GetMessage(data).kind = "dict"
       /\ GetMessage(data).author.kind = "dict"
    THEN GetMessage(data).author.id
    ELSE None

\* C1: an event authored by the bot itself causes no reply and no retrieve
\* or generate call, whatever its other fields are.
C1_OwnMessagesIgnored ==
    \A i \in EventIds :
        AuthorIdOf(events[i]) = bot_id =>
            Replies(i) = {} /\ trace[i] = << >>

C1_Witness ==
    \E i \in EventIds :
        /\ AuthorIdOf(events[i]) = bot_id
        /\ events[i].message.channelId = None
        /\ outcome[i] = "ignored"

\* the conversation id an event carries (None when it carries none)
ChannelIdOf(data) ==
    IF data.kind = "dict" /\ GetMessage(data).kind = "dict"
    THEN GetMessage(data).channelId
    ELSE None

\* the results of the calls of one kind made for event i
Results(i, op) == {trace[i][k].res : k \in CallsOf(i, op)}

\* outbox positions of replies (emits triggered by an inbound event)
ReplyPositions == {k \in 1..Len(outbox) : outbox[k].ev # 0}

\* C2: two successive replies into the same conversation are at least
\* MIN_INTERVAL apart, also when the events arrive in a burst.
C2_MinIntervalBetweenReplies ==
    \A k1, k2 \in ReplyPositions :
        (k1 < k2 /\ outbox[k1].channelId = outbox[k2].channelId) =>
            outbox[k2].at - outbox[k1].at >= MIN_INTERVAL

Strip(text) == IF text \in {"", " "} THEN "" ELSE text

\* the filtering policy as the specification states it
SpecRejects(data) ==
    \/ AuthorIdOf(data) = bot_id
    \/ data.kind # "dict"
    \/ GetMessage(data).kind # "dict"
    \/ Strip(GetMessage(data).content) = ""
    \/ ChannelIdOf(data) \in {None, ""}
    \/ AuthorIdOf(data) \in {None, ""}

\* C4: an accepted event causes zero or one reply, a rejected event
\* (author, text or required-field check) causes none.
C4_ZeroOrOneReply ==
    \A i \in EventIds :
        /\ Cardinality(Replies(i)) <= 1
        /\ SpecRejects(events[i]) => Replies(i) = {}

\* C5: when retrieve, generate and send all succeed for an event, exactly
\* one reply is sent, into the event's conversation, with the generator's
\* text.
C5_ReplyMatchesEvent ==
    \A i \in EventIds :
        (/\ Results(i, "retrieve") = {"ok"}
         /\ Results(i, "generate") \subseteq Texts
         /\ Results(i, "send") = {"ok"}) =>
            /\ Cardinality(Replies(i)) = 1
            /\ \A k \in Replies(i) :
                  /\ outbox[k].event = "message"
                  /\ outbox[k].channelId = ChannelIdOf(events[i])
                  /\ {outbox[k].content} = Results(i, "generate")

C5_Witness ==
    \E i \in EventIds :
        /\ outcome[i] = "replied"
        /\ ChannelIdOf(events[i]) = "c2"
        /\ Results(i, "generate") = {"hi there"}

\* the event thread is not inside, and will not re-enter, the call for i
Released(i) ==
    /\ pc # "crashed"
    /\ cur.ev # i
    /\ i <= dispatched
    /\ outcome[i] = "failed"

\* C6: after a failed retrieve there is no generate and no send for that
\* event, and the event thread goes on to later events.
C6_RetrieveFailureDrops ==
    \A i \in EventIds :
        "raise" \in Results(i, "retrieve") =>
            /\ CallsOf(i, "generate") = {}
            /\ CallsOf(i, "send") = {}
            /\ Replies(i) = {}
            /\ Released(i)

C6_Witness ==
    \E i, j \in EventIds :
        /\ i < j
        /\ "raise" \in Results(i, "retrieve")
        /\ outcome[j] = "replied"

\* C7: after a failed generate the event is dropped: generate is not
\* called again for it and nothing is emitted for it.
C7_GenerateFailureDrops ==
    \A i \in EventIds :
        "raise" \in Results(i, "generate") =>
            /\ Cardinality(CallsOf(i, "generate")) = 1
            /\ CallsOf(i, "send") = {}
            /\ Replies(i) = {}
            /\ Released(i)

C7_Witness ==
    \E i \in EventIds :
        /\ "raise" \in Results(i, "generate")
        /\ Handled(i)

\* C8: a failed send is attempted once only, the event is not processed
\* again, and the event thread goes on to the next event.
C8_SendFailureLocal ==
    \A i \in EventIds :
        "raise" \in Results(i, "send") =>
            /\ Cardinality(CallsOf(i, "send")) = 1
            /\ Cardinality(CallsOf(i, "retrieve")) = 1
            /\ Cardinality(CallsOf(i, "generate")) = 1
            /\ Replies(i) = {}
            /\ Released(i)

C8_Witness ==
    \E i, j \in EventIds :
        /\ i < j
        /\ "raise" \in Results(i, "send")
        /\ Handled(j)
        /\ outcome[j] # "failed"

\* C9: whatever the payload and whichever external call fails, no
\* exception escapes the handler and the event thread stays alive.
C9_NoExceptionEscapes ==
    /\ pc # "crashed"
    /\ \A i \in EventIds : outcome[i] # "escaped"

C9_Witness ==
    \E i, j \in EventIds :
        /\ i < j
        /\ outcome[i] = "error"
        /\ outcome[j] = "failed"

\* an event lacking the conversation id or the author id, or malformed
MissingRequired(data) ==
    \/ data.kind # "dict"
    \/ GetMessage(data).kind # "dict"
    \/ GetMessage(data).author.kind # "dict"
    \/ ChannelIdOf(data) = None
    \/ AuthorIdOf(data) \in {None, ""}

\* C10: an event whose conversation id or author id is missing, or which
\* is malformed, is dropped: no retrieve, no generate, no reply, no
\* exception to the caller.
C10_MissingFieldsDropped ==
    \A i \in EventIds :
        MissingRequired(events[i]) =>
            /\ trace[i] = << >>
            /\ Replies(i) = {}
            /\ outcome[i] # "escaped"

\* C11: an event whose text is empty or only whitespace causes no reply,
\* also when its author is a user and its conversation id is present.
C11_BlankTextDropped ==
    \A i \in EventIds :
        (/\ events[i].kind = "dict"
         /\ GetMessage(events[i]).kind = "dict"
         /\ Strip(GetMessage(events[i]).content) = "") =>
            Replies(i) = {}

Started(i) == outcome[i] # "queued"

C16_FatalOnlyAtStartup ==
    /\ mainpc \in {"failed", "exiting1", "exit1"} =>
          ~is_initialized /\ ~signalled
    /\ mainpc \in {"exiting1", "exit1"} =>
          IF calledDisconnect THEN disconnects >= 1
          ELSE connected => attempts >= 1   \* only disconnect() reconnects
    /\ is_initialized => mainpc \in {"running", "exiting0", "exit0"}
    /\ (is_initialized /\ mainpc # "running") => signalled

C16_Witness ==
    /\ mainpc = "exit1"
    /\ calledDisconnect
    /\ vectorstore

\* C17: once initialization has completed, events, handler failures and
\* connection losses leave the process running; it ends on a signal only.
C17_ExitsOnSignalOnly ==
    /\ (is_initialized /\ mainpc # "running") =>
          signalled /\ mainpc \in {"exiting0", "exit0"}
    /\ (is_initialized /\ ~signalled) => pc # "crashed"

C17_Witness ==
    /\ mainpc = "running"
    /\ lastAttempt = "fail"
    /\ \E i, j \in EventIds : outcome[i] = "failed" /\ outcome[j] = "error"

\* C18: each disconnect event gets exactly one reconnect attempt; after a
\* failed attempt the client stays disconnected and no attempt is pending.
C18_OneReconnectAttempt ==
    /\ attempts + (IF discPending THEN 1 ELSE 0) = disconnects
    /\ lastAttempt = "fail" => (~connected /\ ~discPending)

C18_Witness ==
    /\ lastAttempt = "fail"
    /\ attempts = 2
    /\ disconnects = 2
    /\ Alive

\* C19: a signal handled while connected disconnects the socket and the
\* process exits with status 0 without a new connection.
C19_NoConnectionAtExit ==
    (mainpc = "exit0" /\ calledDisconnect) => ~connected

\* C20: once main has connected the socket the vectorstore is set, so no
\* message is dropped on the "vectorstore not initialized" branch.
C20_VectorstoreBeforeConnect ==
    /\ (connected \/ is_initialized \/ events # << >>) => vectorstore
    /\ \A i \in EventIds :
          outcome[i] = "ignored" =>
              AuthorIdOf(events[i]) \in {bot_id, "", None}

C20_Witness ==
    /\ is_initialized
    /\ attempts >= 1
    /\ \E i, j \in EventIds : outcome[i] = "replied" /\ outcome[j] = "ignored"

\* C14: an external call that never returns is eventually treated as a
\* failure of its event, which is dropped, so the events after it get
\* processed.
C14_HungCallTimesOut ==
    \A i \in 1..MaxEvents :
        (pc = "hung" /\ cur.ev = i) ~>
            (Len(outcome) >= i /\ outcome[i] = "failed")

\* events written by somebody other than the bot
UserEvents ==
    {i \in EventIds : AuthorIdOf(events[i]) \notin {bot_id, None, ""}}

\* events that are one of the bot's own messages coming back
EchoEvents ==
    {i \in EventIds : \E k \in 1..Len(outbox) :
        outbox[k].event = "message" /\ events[i] = EchoOf(outbox[k])}

\* C12: with the bot's own messages delivered back to it there is no reply
\* loop: every message it emits carries bot_id as author, none of them is
\* answered, and there are at most as many replies as user events.
C12_NoSelfReplyLoop ==
    /\ \A k \in 1..Len(outbox) :
          outbox[k].event = "message" => outbox[k].author = bot_id
    /\ \A i \in EchoEvents : Replies(i) = {} /\ trace[i] = << >>
    /\ Cardinality(ReplyPositions) <= Cardinality(UserEvents)

C12_Witness ==
    \E i, j \in EventIds :
        /\ i < j
        /\ outcome[i] = "replied"
        /\ j \in EchoEvents
        /\ events[j].message.content \in Texts
        /\ outcome[j] = "ignored"

\* --------------------------------------------------------- channel events
ChannelEventIds == 1..Len(chanlog)

\* the channel is a DM and bot_id is the id of one of its participants
BotIsParticipant(data) ==
    /\ data.kind = "dict"
    /\ data.type = "DM"
    /\ \E i \in 1..Len(data.participants) : data.participants[i] = bot_id

\* the same, with no malformed participant entry in front of the bot's
BotIsFound(data) ==
    /\ data.kind = "dict"
    /\ data.type = "DM"
    /\ \E i \in 1..Len(data.participants) :
         /\ data.participants[i] = bot_id
         /\ \A j \in 1..(i - 1) : data.participants[j] # "bad"

IsJoinOf(m, data) == m.event = "join-channel" /\ m.channelId = data.id

IsWelcomeOf(m, data) ==
    /\ m.event = "message"
    /\ m.channelId = data.id
    /\ m.author = bot_id
    /\ m.content = WelcomeText

\* C21 as stated: join-channel is emitted exactly for a DM channel that has
\* bot_id among its participants' ids, it is then followed by exactly one
\* welcome message to that channel, nothing is emitted otherwise, and no
\* exception escapes channel_created.
C21_JoinIffDMParticipant ==
    \A n \in ChannelEventIds :
        LET e == chanlog[n] IN
        /\ IF BotIsParticipant(e.data)
           THEN /\ Len(e.emitted) = 2
                /\ IsJoinOf(e.emitted[1], e.data)
                /\ IsWelcomeOf(e.emitted[2], e.data)
           ELSE e.emitted = << >>
        /\ ~e.escaped

\* C21 amended: join-channel is emitted only for a DM channel in which
\* bot_id is found before any malformed participant entry; unless an emit
\* raises, the join is followed by exactly one welcome message to the same
\* channel; an emit that raises ends the handler with nothing further
\* emitted; otherwise nothing is emitted; no exception escapes.
C21_JoinThenWelcome ==
    /\ pc # "crashed"
    /\ \A n \in ChannelEventIds :
        LET e == chanlog[n] IN
        /\ ~e.escaped
        /\ IF BotIsFound(e.data)
           THEN /\ Len(e.emitted) <= 2
                /\ Len(e.emitted) >= 1 => IsJoinOf(e.emitted[1], e.data)
                /\ Len(e.emitted) = 2 => IsWelcomeOf(e.emitted[2], e.data)
                /\ Len(e.emitted) < 2 <=> e.raised # None
           ELSE e.emitted = << >>

C21_Witness ==
    \E n \in ChannelEventIds :
        /\ BotIsFound(chanlog[n].data)
        /\ Len(chanlog[n].emitted) = 2
        /\ chanlog[n].raised = None

\* ----------------------------------------------------------- index calls
IndexCalls(op) == {k \in 1..Len(ilog) : ilog[k].op = op}

\* describe_index raised an error that reports the index as missing
ReportsDeletion(k) ==
    /\ ilog[k].op = "describe_index"
    /\ ilog[k].res \in NotFoundMessages

\* describe_index raised another error
OtherDescribeError(k) ==
    /\ ilog[k].op = "describe_index"
    /\ ilog[k].res \notin NotFoundMessages \cup {"exists"}

\* C22: create_index is never called while the old index still exists; a
\* listed index is deleted first and create_index is reached only after
\* describe_index has raised a "not found" error; any other describe_index
\* error propagates with no create_index call; the wait loop is left only
\* when deletion has been reported.
C22_CreateOnlyAfterDeletion ==
    /\ \A k \in IndexCalls("create_index") :
         /\ ilog[k].remote = "absent"
         /\ ilog[1].op = "list_indexes"
         /\ ilog[1].res = "unlisted" => k = 2
         /\ ilog[1].res = "listed" =>
              /\ ilog[2].op = "delete_index"
              /\ ReportsDeletion(k - 1)
    /\ \A k \in 1..Len(ilog) :
         /\ (ilog[k].op = "list_indexes" /\ ilog[k].res = "listed"
               /\ k < Len(ilog)) => ilog[k + 1].op = "delete_index"
         /\ OtherDescribeError(k) =>
              /\ k = Len(ilog)
              /\ ipc = "raised"
              /\ IndexCalls("create_index") = {}
    /\ (IndexCalls("delete_index") # {} /\ ipc \in {"create", "load", "returned"})
         => \E k \in 1..Len(ilog) : ReportsDeletion(k)
    /\ (ipc = "wait") => \A k \in 1..Len(ilog) : ~ReportsDeletion(k)

C22_Witness ==
    /\ ipc = "returned"
    /\ \E k \in IndexCalls("create_index") :
         /\ ilog[2].op = "delete_index"
         /\ ilog[3].res = "exists"
         /\ ReportsDeletion(k - 1)

\* ------------------------------------------------------- create_robot runs
\* 'bot_' + the lowercased name with spaces replaced by underscores
DerivedId(name) ==
    CASE name = <<"R", " ", "b">> -> <<"b", "o", "t", "_", "r", "_", "b">>
      [] name = <<"r", " ", "b">> -> <<"b", "o", "t", "_", "r", "_", "b">>
      [] name = <<"r", "_", "b">> -> <<"b", "o", "t", "_", "r", "_", "b">>
      [] name = <<"R", "b">> -> <<"b", "o", "t", "_", "r", "b">>

RowsWithId(id) == {i \in 1..Len(users) : users[i].id = id}

RunsOf(name) == {k \in 1..Len(runs) : runs[k].name = name}

\* the invocation ended without a database error
Completed(k) == runs[k].res \in {"created", "exists"}

\* C23 as stated: after any number of invocations with one name the table
\* holds exactly one row with the derived id, and every invocation after
\* the first inserts and changes nothing.
C23_Idempotent ==
    \A name \in BotNames :
        /\ RunsOf(name) # {} => Cardinality(RowsWithId(DerivedId(name))) = 1
        /\ \A j, k \in RunsOf(name) : j < k => runs[k].after = runs[k].before

\* C23 amended: the table holds at most one row with the derived id, and
\* exactly one once an invocation with that name has ended without a
\* database error; an invocation that creates the row appends it under the
\* derived id; every invocation after the first completed one, and every
\* invocation that ends in an error, changes nothing.
C23_IdempotentOnceCompleted ==
    \A name \in BotNames :
        /\ Cardinality(RowsWithId(DerivedId(name))) <= 1
        /\ (\E k \in RunsOf(name) : Completed(k)) =>
              Cardinality(RowsWithId(DerivedId(name))) = 1
        /\ \A k \in RunsOf(name) :
              /\ runs[k].res = "created" =>
                    runs[k].after = Append(runs[k].before,
                                           UserRow(DerivedId(name), name))
              /\ runs[k].res # "created" => runs[k].after = runs[k].before
              /\ (\E j \in RunsOf(name) : j < k /\ Completed(j)) =>
                    runs[k].after = runs[k].before

C23_Witness ==
    \E name \in BotNames : \E j, k \in RunsOf(name) :
        /\ j < k
        /\ runs[j].res = "created"
        /\ runs[k].res = "exists"
        /\ Cardinality(RowsWithId(DerivedId(name))) = 1

====
